---------------------------- MODULE Spec2Model ----------------------------
(***************************************************************************)
(* The Prime Anchor System scripts as one state machine.                   *)
(*                                                                         *)
(* Every script of the repository is a batch run: load or sieve the prime  *)
(* sequence, check that it is long enough, scan the anchors                *)
(* S = p[i] + p[i+1] one index at a time (distance search, classification, *)
(* correction search), then print a report.  The variable `script` names   *)
(* the script being run:                                                   *)
(*   PAS  prime-anchor-system.py        L3  law-III-null-hypothesis.py     *)
(*   DA   correction-decay-analysis.py  RM  r_max-final-test.py            *)
(*   M6   mod6-classifier.py            S2  s_2-anomaly-test.py            *)
(*   GP   generate-prime.py             HT  heuristics-test.py             *)
(*                                                                         *)
(* The configuration constants of the scripts (number of pairs, correction *)
(* radius, sieve limit, safety limit, interval) are in the millions in the *)
(* source; here they are inputs drawn from small sets, so that the whole   *)
(* run can be enumerated.  The prime file is a prefix of the sequence of   *)
(* primes 2, 3, 5, ... (section 6 of the specification).  Indices are      *)
(* 0-based as in the Python source.                                        *)
(***************************************************************************)
EXTENDS Integers, Sequences, FiniteSets, TLC

(***************************************************************************)
(* Bounds of the model.                                                    *)
(***************************************************************************)
\* Largest value the prime file and the sieve can hold.
MaxValue == 700
\* The pair counts tried: 1..SmallPairs, MaxPairs and MaxPairs + 1.
SmallPairs == 12
MaxPairs == 55
\* One more pair count and file length, a file that holds just the primes the
\* check before the scan asks for at that pair count.
MidPairs == 18
MidFile == 24
\* Correction radii tried: 0..MaxRadius.
MaxRadius == 4
\* Prime-file lengths tried: 0..SmallFile and the whole file.
SmallFile == 16
\* Stand-in for the safety limits of the distance searches (500, 1000, 2000
\* in the source).
SafetyLimit == 10
\* The sieve limits tried are the multiples of SieveStep up to MaxValue.
SieveStep == 30

(***************************************************************************)
(* Arithmetic used to state the claims: primality by trial division.       *)
(***************************************************************************)
IsPrime(n) == n > 1 /\ \A d \in 2..(n - 1) : d * d > n \/ n % d # 0

\* The primes among lo..hi in increasing order.
RECURSIVE PrimesBetween(_, _)
PrimesBetween(lo, hi) ==
    IF lo > hi THEN <<>>
    ELSE IF lo = hi THEN (IF IsPrime(lo) THEN <<lo>> ELSE <<>>)
    ELSE LET mid == (lo + hi) \div 2
         IN  PrimesBetween(lo, mid) \o PrimesBetween(mid + 1, hi)

\* The primes up to MaxValue in increasing order: the content of the largest
\* prime file (one prime per line, ascending, starting at 2).
AllPrimes == PrimesBetween(2, MaxValue)

\* Every value a run can test lies below TrueMax; TruePrimes holds the primes
\* below it.
TrueMax == 3 * MaxValue

TruePrimes == {n \in 2..TrueMax : IsPrime(n)}

Abs(x) == IF x < 0 THEN -x ELSE x

Range(s) == {s[j] : j \in 1..Len(s)}


(***************************************************************************)
(* Python lists: 0-based, a negative index counts from the end, any other  *)
(* index outside the list raises IndexError.                               *)
(***************************************************************************)
InRange(list, idx) == -Len(list) <= idx /\ idx < Len(list)

At(list, idx) == IF idx >= 0 THEN list[idx + 1] ELSE list[Len(list) + idx + 1]

\* list[:n] for n >= 0
Prefix(list, n) == SubSeq(list, 1, IF n < Len(list) THEN n ELSE Len(list))

\* dict.get(key, 0) and d[key] = d.get(key, 0) + 1
Get(d, key) == IF key \in DOMAIN d THEN d[key] ELSE 0

Incr(d, key) == [x \in DOMAIN d \cup {key} |-> IF x = key THEN Get(d, key) + 1 ELSE d[x]]

EmptyDict == [x \in {} |-> 0]

RECURSIVE SumOver(_, _)
SumOver(d, keys) ==
    IF keys = {} THEN 0
    ELSE LET x == CHOOSE y \in keys : TRUE
         IN  d[x] + SumOver(d, keys \ {x})

\* sum(d.values())
SumValues(d) == SumOver(d, DOMAIN d)

(***************************************************************************)
(* The sieve of prime-anchor-system.py.                                    *)
(***************************************************************************)
\* int(math.sqrt(limit))
ISqrt(n) == CHOOSE r \in 0..n : r * r <= n /\ (r + 1) * (r + 1) > n

\* The loop crossing out every multiple of p from p itself on.
RECURSIVE SieveLoop_FromP(_, _, _, _)
SieveLoop_FromP(is_prime, p, last, limit) ==
    IF p > last THEN is_prime
    ELSE SieveLoop_FromP(
            IF is_prime[p]
            THEN [m \in 0..limit |-> is_prime[m] /\ ~(m >= p /\ m % p = 0)]
            ELSE is_prime,
            p + 1, last, limit)

\* for p in range(2, last + 1): if is_prime[p]: cross out p*p, p*p + p, ...
RECURSIVE SieveLoop(_, _, _, _)
SieveLoop(is_prime, p, last, limit) ==
    IF p > last THEN is_prime
    ELSE SieveLoop(
            IF is_prime[p]
            THEN [m \in 0..limit |->
                    is_prime[m] /\ ~(m >= p * p /\ (m - p * p) % p = 0)]
            ELSE is_prime,
            p + 1, last, limit)

\* for p in range(2, limit + 1): if is_prime[p]: append p, add p
\* (lo..hi is the part of the range collected)
RECURSIVE CollectLoop(_, _, _)
CollectLoop(is_prime, lo, hi) ==
    IF lo > hi THEN <<>>
    ELSE IF lo = hi THEN (IF is_prime[lo] THEN <<lo>> ELSE <<>>)
    ELSE LET mid == (lo + hi) \div 2
         IN  CollectLoop(is_prime, lo, mid) \o CollectLoop(is_prime, mid + 1, hi)

\* The sieve whose set misses the last prime appended to the list.
sieve_for_primes_SetLagging(limit) ==
    LET is_prime == SieveLoop([m \in 0..limit |-> m >= 2], 2, ISqrt(limit), limit)
        list == CollectLoop(is_prime, 2, limit)
    IN  [prime_list |-> list, prime_set |-> Range(Prefix(list, Len(list) - 1))]

sieve_for_primes(limit) ==
    LET is_prime == SieveLoop([m \in 0..limit |-> m >= 2], 2, ISqrt(limit), limit)
        list == CollectLoop(is_prime, 2, limit)
    IN  [prime_list |-> list, prime_set |-> Range(list)]

\* sieve_up_to_r(limit) of generate-prime.py and heuristics-test.py: the
\* outer loop runs to limit, the result is read off with enumerate.
sieve_up_to_r(limit) ==
    IF limit < 2 THEN <<>>
    ELSE LET is_prime == SieveLoop([m \in 0..limit |-> m >= 2], 2, limit, limit)
         IN  CollectLoop(is_prime, 0, limit)

(***************************************************************************)
(* Loading the prime file.                                                 *)
(***************************************************************************)
\* The lines of a prime file holding n primes.
FileContent(n) == SubSeq(AllPrimes, 1, n)

\* The loader of the scripts that use the whole file.
load_primes_from_file(n) == FileContent(n)

\* The loader of generate-prime.py and heuristics-test.py, which cuts the
\* list to NUM_ANCHOR_POINTS + MAX_CORRECTION_RADIUS + 2 entries.
ANALYTICAL_PRIME_COUNT(pairs, radius) == pairs + radius + 2

load_primes_truncated(n, pairs, radius) ==
    IF n > ANALYTICAL_PRIME_COUNT(pairs, radius)
    THEN Prefix(FileContent(n), ANALYTICAL_PRIME_COUNT(pairs, radius))
    ELSE FileContent(n)

(***************************************************************************)
(* Classification of a distance.                                           *)
(***************************************************************************)
is_clean_k(k_val, prime_set) == k_val = 1 \/ k_val \in prime_set

\* The test without its k > 1 part.
is_k_composite_NoLowerBound(k, prime_set) == k \notin prime_set

is_k_composite(k, prime_set) == k > 1 /\ k \notin prime_set

\* The tally of the heuristic scripts.
is_clean(k_min, prime_set) == k_min = 1 \/ (k_min > 1 /\ k_min \in prime_set)

(***************************************************************************)
(* The distance searches.  Each returns the distance found (0 when the     *)
(* search gave up) and the candidate primes q it recorded.                 *)
(***************************************************************************)
NotFound == [k |-> 0, qs |-> <<>>]

\* prime-anchor-system.py: both sides recorded, stops past the sieve limit.
RECURSIVE PAS_Search(_, _, _, _)
PAS_Search(anchor_sum, prime_set, limit, d) ==
    LET found_lower == (anchor_sum - d) \in prime_set
        found_upper == (anchor_sum + d) \in prime_set
    IN  IF found_lower \/ found_upper
        THEN [k |-> d,
              qs |-> (IF found_lower THEN <<anchor_sum - d>> ELSE <<>>)
                     \o (IF found_upper THEN <<anchor_sum + d>> ELSE <<>>)]
        ELSE IF anchor_sum + d > limit THEN NotFound
        ELSE PAS_Search(anchor_sum, prime_set, limit, d + 1)

\* law-III-null-hypothesis.py and r_max-final-test.py: the limit is tested
\* first, the lower prime is preferred, one candidate is kept.
RECURSIVE LimitFirst_Search(_, _, _, _)
LimitFirst_Search(anchor_sum, prime_set, limit, search_dist) ==
    IF search_dist > limit THEN NotFound
    ELSE IF (anchor_sum - search_dist) \in prime_set
    THEN [k |-> search_dist, qs |-> <<anchor_sum - search_dist>>]
    ELSE IF (anchor_sum + search_dist) \in prime_set
    THEN [k |-> search_dist, qs |-> <<anchor_sum + search_dist>>]
    ELSE LimitFirst_Search(anchor_sum, prime_set, limit, search_dist + 1)

\* mod6-classifier.py and s_2-anomaly-test.py: only the distance is kept.
RECURSIVE KOnly_Search(_, _, _, _)
KOnly_Search(anchor_sum, prime_set, limit, search_dist) ==
    IF search_dist > limit THEN NotFound
    ELSE IF (anchor_sum - search_dist) \in prime_set
            \/ (anchor_sum + search_dist) \in prime_set
    THEN [k |-> search_dist, qs |-> <<>>]
    ELSE KOnly_Search(anchor_sum, prime_set, limit, search_dist + 1)

\* The search that looks above the anchor and, below it, only for the prime 2.
RECURSIVE DA_Search_UpperSide(_, _, _)
DA_Search_UpperSide(anchor_sum, prime_set, search_dist) ==
    IF anchor_sum - search_dist = 2 \/ (anchor_sum + search_dist) \in prime_set
    THEN [k |-> search_dist,
          qs |-> IF anchor_sum - search_dist = 2
                 THEN <<anchor_sum - search_dist>>
                 ELSE <<anchor_sum + search_dist>>]
    ELSE DA_Search_UpperSide(anchor_sum, prime_set, search_dist + 1)

\* correction-decay-analysis.py: no limit; q is chosen after the loop.
RECURSIVE DA_Search(_, _, _)
DA_Search(anchor_sum, prime_set, search_dist) ==
    IF (anchor_sum - search_dist) \in prime_set
       \/ (anchor_sum + search_dist) \in prime_set
    THEN [k |-> search_dist,
          qs |-> IF (anchor_sum - search_dist) \in prime_set
                 THEN <<anchor_sum - search_dist>>
                 ELSE <<anchor_sum + search_dist>>]
    ELSE DA_Search(anchor_sum, prime_set, search_dist + 1)

\* generate-prime.py, main loop: while search_radius <= limit.
RECURSIVE GP_Search(_, _, _, _)
GP_Search(s_n, prime_set, limit, search_radius) ==
    IF search_radius > limit THEN NotFound
    ELSE IF (s_n - search_radius > 1 /\ (s_n - search_radius) \in prime_set)
            \/ (s_n + search_radius) \in prime_set
    THEN [k |-> search_radius, qs |-> <<>>]
    ELSE GP_Search(s_n, prime_set, limit, search_radius + 1)

\* heuristics-test.py, main loop over the true anchors.
RECURSIVE HT_Search(_, _, _, _)
HT_Search(s_n, prime_set, limit, search_radius) ==
    IF search_radius > limit THEN NotFound
    ELSE IF (s_n - search_radius) \in prime_set
            \/ (s_n + search_radius) \in prime_set
    THEN [k |-> search_radius, qs |-> <<>>]
    ELSE HT_Search(s_n, prime_set, limit, search_radius + 1)

\* find_correction_radius: the limit is tested after both sides.
RECURSIVE FCR_Search(_, _, _, _)
FCR_Search(anchor_sum, p_set, limit, d) ==
    IF (anchor_sum - d) \in p_set THEN [k |-> d, qs |-> <<anchor_sum - d>>]
    ELSE IF (anchor_sum + d) \in p_set THEN [k |-> d, qs |-> <<anchor_sum + d>>]
    ELSE IF d > limit THEN NotFound
    ELSE FCR_Search(anchor_sum, p_set, limit, d + 1)

(***************************************************************************)
(* The correction searches.  Each returns                                  *)
(*   corrected  whether a clean neighbouring anchor was found,             *)
(*   radius     the radius of the correction (0 when there is none),       *)
(*   by         "prev" or "next", the side that corrected ("" for none),   *)
(*   q          the target prime in use when the search ended,             *)
(*   error      TRUE when the search indexed the list out of range         *)
(*              (IndexError ends the script).                              *)
(***************************************************************************)
Result(c, r, side, q, e) ==
    [corrected |-> c, radius |-> r, by |-> side, q |-> q, error |-> e]

\* An anchor that is one more than the sum of the pair, an odd number.
AnchorAt_PlusOne(list, j) == At(list, j) + At(list, j + 1) + 1

\* S_j = p[j] + p[j+1]
AnchorAt(list, j) == At(list, j) + At(list, j + 1)

AnchorReadable(list, j) == InRange(list, j) /\ InRange(list, j + 1)

\* The radius loop with the two sides in the other order.
RECURSIVE PAS_RadiusLoop_NextFirst(_, _, _, _, _, _)
PAS_RadiusLoop_NextFirst(prime_list, prime_set, i, q_prime, radius, max_radius) ==
    IF radius > max_radius THEN Result(FALSE, 0, "", q_prime, FALSE)
    ELSE IF ~AnchorReadable(prime_list, i + radius)
    THEN Result(FALSE, 0, "", q_prime, TRUE)
    ELSE LET k_next == Abs(AnchorAt(prime_list, i + radius) - q_prime)
         IN  IF k_next = 1 \/ k_next \in prime_set
             THEN Result(TRUE, radius, "next", q_prime, FALSE)
             ELSE IF ~AnchorReadable(prime_list, i - radius)
             THEN Result(FALSE, 0, "", q_prime, TRUE)
             ELSE LET k_prev == Abs(AnchorAt(prime_list, i - radius) - q_prime)
                  IN  IF k_prev = 1 \/ k_prev \in prime_set
                      THEN Result(TRUE, radius, "prev", q_prime, FALSE)
                      ELSE PAS_RadiusLoop_NextFirst(prime_list, prime_set, i,
                                                    q_prime, radius + 1, max_radius)

\* The radius loop with its bound tested after the body instead of before.
RECURSIVE PAS_RadiusLoop_BodyFirst(_, _, _, _, _, _)
PAS_RadiusLoop_BodyFirst(prime_list, prime_set, i, q_prime, radius, max_radius) ==
    IF ~AnchorReadable(prime_list, i - radius)
    THEN Result(FALSE, 0, "", q_prime, TRUE)
    ELSE LET k_prev == Abs(AnchorAt(prime_list, i - radius) - q_prime)
         IN  IF k_prev = 1 \/ k_prev \in prime_set
             THEN Result(TRUE, radius, "prev", q_prime, FALSE)
             ELSE IF ~AnchorReadable(prime_list, i + radius)
             THEN Result(FALSE, 0, "", q_prime, TRUE)
             ELSE LET k_next == Abs(AnchorAt(prime_list, i + radius) - q_prime)
                  IN  IF k_next = 1 \/ k_next \in prime_set
                      THEN Result(TRUE, radius, "next", q_prime, FALSE)
                      ELSE IF radius + 1 > max_radius
                      THEN Result(FALSE, 0, "", q_prime, FALSE)
                      ELSE PAS_RadiusLoop_BodyFirst(prime_list, prime_set, i,
                                                    q_prime, radius + 1, max_radius)

\* prime-anchor-system.py, the radius loop for one q: the previous anchor is
\* tested first, the next one only when the previous one did not correct.
RECURSIVE PAS_RadiusLoop(_, _, _, _, _, _)
PAS_RadiusLoop(prime_list, prime_set, i, q_prime, radius, max_radius) ==
    IF radius > max_radius THEN Result(FALSE, 0, "", q_prime, FALSE)
    ELSE IF ~AnchorReadable(prime_list, i - radius)
    THEN Result(FALSE, 0, "", q_prime, TRUE)
    ELSE LET k_prev == Abs(AnchorAt(prime_list, i - radius) - q_prime)
         IN  IF k_prev = 1 \/ k_prev \in prime_set
             THEN Result(TRUE, radius, "prev", q_prime, FALSE)
             ELSE IF ~AnchorReadable(prime_list, i + radius)
             THEN Result(FALSE, 0, "", q_prime, TRUE)
             ELSE LET k_next == Abs(AnchorAt(prime_list, i + radius) - q_prime)
                  IN  IF k_next = 1 \/ k_next \in prime_set
                      THEN Result(TRUE, radius, "next", q_prime, FALSE)
                      ELSE PAS_RadiusLoop(prime_list, prime_set, i, q_prime,
                                          radius + 1, max_radius)

\* prime-anchor-system.py, the loop over the candidates: for q_prime in
\* closest_primes_q, leaving at the first q that is corrected.
RECURSIVE PAS_CandidateLoop(_, _, _, _, _, _)
PAS_CandidateLoop(prime_list, prime_set, i, closest_primes_q, n, max_radius) ==
    IF n > Len(closest_primes_q)
    THEN Result(FALSE, 0, "", 0, FALSE)
    ELSE LET this == PAS_RadiusLoop(prime_list, prime_set, i,
                                    closest_primes_q[n], 1, max_radius)
         IN  IF this.corrected \/ this.error THEN this
             ELSE PAS_CandidateLoop(prime_list, prime_set, i, closest_primes_q,
                                    n + 1, max_radius)

\* The radius loop testing the next anchor only.
RECURSIVE DA_RadiusLoop_NextOnly(_, _, _, _, _, _)
DA_RadiusLoop_NextOnly(prime_list, prime_set, i, q_prime, radius, max_radius) ==
    IF radius > max_radius THEN Result(FALSE, 0, "", q_prime, FALSE)
    ELSE IF ~AnchorReadable(prime_list, i + radius)
    THEN Result(FALSE, 0, "", q_prime, TRUE)
    ELSE LET s_next == AnchorAt(prime_list, i + radius)
         IN  IF Abs(s_next - q_prime) = 1 \/ Abs(s_next - q_prime) \in prime_set
             THEN Result(TRUE, radius, "next", q_prime, FALSE)
             ELSE DA_RadiusLoop_NextOnly(prime_list, prime_set, i, q_prime,
                                         radius + 1, max_radius)

\* correction-decay-analysis.py: one q, the same order of the two sides.
RECURSIVE DA_RadiusLoop(_, _, _, _, _, _)
DA_RadiusLoop(prime_list, prime_set, i, q_prime, radius, max_radius) ==
    IF radius > max_radius THEN Result(FALSE, 0, "", q_prime, FALSE)
    ELSE IF ~AnchorReadable(prime_list, i - radius)
    THEN Result(FALSE, 0, "", q_prime, TRUE)
    ELSE LET s_prev == AnchorAt(prime_list, i - radius)
         IN  IF Abs(s_prev - q_prime) = 1 \/ Abs(s_prev - q_prime) \in prime_set
             THEN Result(TRUE, radius, "prev", q_prime, FALSE)
             ELSE IF ~AnchorReadable(prime_list, i + radius)
             THEN Result(FALSE, 0, "", q_prime, TRUE)
             ELSE LET s_next == AnchorAt(prime_list, i + radius)
                  IN  IF Abs(s_next - q_prime) = 1
                         \/ Abs(s_next - q_prime) \in prime_set
                      THEN Result(TRUE, radius, "next", q_prime, FALSE)
                      ELSE DA_RadiusLoop(prime_list, prime_set, i, q_prime,
                                         radius + 1, max_radius)

\* r_max-final-test.py: both neighbours are read before either is tested.
RECURSIVE RM_RadiusLoop(_, _, _, _, _, _)
RM_RadiusLoop(prime_list, prime_set, i, q_prime, r, max_radius) ==
    IF r > max_radius THEN Result(FALSE, 0, "", q_prime, FALSE)
    ELSE IF ~AnchorReadable(prime_list, i - r) \/ ~AnchorReadable(prime_list, i + r)
    THEN Result(FALSE, 0, "", q_prime, TRUE)
    ELSE LET s_prev == AnchorAt(prime_list, i - r)
             s_next == AnchorAt(prime_list, i + r)
         IN  IF is_clean_k(Abs(s_prev - q_prime), prime_set)
             THEN Result(TRUE, r, "prev", q_prime, FALSE)
             ELSE IF is_clean_k(Abs(s_next - q_prime), prime_set)
             THEN Result(TRUE, r, "next", q_prime, FALSE)
             ELSE RM_RadiusLoop(prime_list, prime_set, i, q_prime, r + 1, max_radius)

\* law-III-null-hypothesis.py: the radii 1 and 2 only, written out, both
\* neighbours read before either is tested.
L3_Correction(prime_list, prime_set, i, q_prime) ==
    IF ~AnchorReadable(prime_list, i - 1) \/ ~AnchorReadable(prime_list, i + 1)
    THEN Result(FALSE, 0, "", q_prime, TRUE)
    ELSE IF is_clean_k(Abs(AnchorAt(prime_list, i - 1) - q_prime), prime_set)
    THEN Result(TRUE, 1, "prev", q_prime, FALSE)
    ELSE IF is_clean_k(Abs(AnchorAt(prime_list, i + 1) - q_prime), prime_set)
    THEN Result(TRUE, 1, "next", q_prime, FALSE)
    ELSE IF ~AnchorReadable(prime_list, i - 2) \/ ~AnchorReadable(prime_list, i + 2)
    THEN Result(FALSE, 0, "", q_prime, TRUE)
    ELSE IF is_clean_k(Abs(AnchorAt(prime_list, i - 2) - q_prime), prime_set)
    THEN Result(TRUE, 2, "prev", q_prime, FALSE)
    ELSE IF is_clean_k(Abs(AnchorAt(prime_list, i + 2) - q_prime), prime_set)
    THEN Result(TRUE, 2, "next", q_prime, FALSE)
    ELSE Result(FALSE, 0, "", q_prime, FALSE)

\* The radius loop giving up at the first radius whose previous index leaves
\* the list, instead of skipping that side.
RECURSIVE FCR_RadiusLoop_StopAtEdge(_, _, _, _, _, _)
FCR_RadiusLoop_StopAtEdge(p_list, p_set, anchor_index, target_prime, radius, max_r) ==
    LET idx_prev == anchor_index - radius
        idx_next == anchor_index + radius
        prev_ok == idx_prev >= 1
                   /\ LET k_prev == Abs(AnchorAt(p_list, idx_prev) - target_prime)
                      IN  k_prev = 1 \/ k_prev \in p_set
        next_ok == idx_next + 1 < Len(p_list)
                   /\ LET k_next == Abs(AnchorAt(p_list, idx_next) - target_prime)
                      IN  k_next = 1 \/ k_next \in p_set
    IN  IF radius > max_r \/ idx_prev < 1
        THEN Result(FALSE, 0, "", target_prime, FALSE)
        ELSE IF prev_ok THEN Result(TRUE, radius, "prev", target_prime, FALSE)
        ELSE IF next_ok THEN Result(TRUE, radius, "next", target_prime, FALSE)
        ELSE FCR_RadiusLoop_StopAtEdge(p_list, p_set, anchor_index, target_prime,
                                       radius + 1, max_r)

\* find_correction_radius, the radius loop: a side whose index leaves the
\* list is skipped.
RECURSIVE FCR_RadiusLoop(_, _, _, _, _, _)
FCR_RadiusLoop(p_list, p_set, anchor_index, target_prime, radius, max_r) ==
    LET idx_prev == anchor_index - radius
        idx_next == anchor_index + radius
        prev_ok == idx_prev >= 1
                   /\ LET k_prev == Abs(AnchorAt(p_list, idx_prev) - target_prime)
                      IN  k_prev = 1 \/ k_prev \in p_set
        next_ok == idx_next + 1 < Len(p_list)
                   /\ LET k_next == Abs(AnchorAt(p_list, idx_next) - target_prime)
                      IN  k_next = 1 \/ k_next \in p_set
    IN  IF radius > max_r THEN Result(FALSE, 0, "", target_prime, FALSE)
        ELSE IF prev_ok THEN Result(TRUE, radius, "prev", target_prime, FALSE)
        ELSE IF next_ok THEN Result(TRUE, radius, "next", target_prime, FALSE)
        ELSE FCR_RadiusLoop(p_list, p_set, anchor_index, target_prime,
                            radius + 1, max_r)

\* find_correction_radius(p_list, p_set, anchor_index, max_r): the returned
\* dictionary {k, r, gap, status}.
find_correction_radius(p_list, p_set, anchor_index, max_r) ==
    LET p_n == At(p_list, anchor_index)
        p_n_plus_1 == At(p_list, anchor_index + 1)
        anchor_sum == p_n + p_n_plus_1
        gap == p_n_plus_1 - p_n
        found == FCR_Search(anchor_sum, p_set, SafetyLimit, 1)
        k_min == found.k
    IN  IF found.qs = <<>>
        THEN [k |-> 0, r |-> 0, gap |-> gap, status |-> "FAIL: Too far",
              q |-> 0, by |-> ""]
        ELSE IF ~is_k_composite(k_min, p_set)
        THEN [k |-> k_min, r |-> 0, gap |-> gap, status |-> "SUCCESS: Law I Held",
              q |-> found.qs[1], by |-> ""]
        ELSE LET c == FCR_RadiusLoop(p_list, p_set, anchor_index, found.qs[1],
                                     1, max_r)
             IN  IF c.corrected
                 THEN [k |-> k_min, r |-> c.radius, gap |-> gap,
                       status |-> "CORRECTED", q |-> found.qs[1], by |-> c.by]
                 ELSE [k |-> k_min, r |-> max_r, gap |-> gap,
                       status |-> "FAILURE: Max Radius Exceeded",
                       q |-> found.qs[1], by |-> ""]

(***************************************************************************)
(* The state of a run.                                                     *)
(***************************************************************************)
VARIABLES
    script,            \* the script that runs
    num_pairs,         \* MAX_PRIME_PAIRS_TO_TEST / NUM_ANCHOR_POINTS
    max_radius,        \* MAX_CORRECTION_RADIUS / MAX_RADIUS_LIMIT
    sieve_limit,       \* SIEVE_LIMIT (prime-anchor-system.py)
    file_exists,       \* whether the prime file is there
    file_len,          \* the number of primes the file holds
    pc,                \* where the run is; an exception's name when one ended it
    prime_list,        \* the prime sequence
    prime_set,         \* the membership set
    i,                 \* the loop variable of the scan
    anchor_sum,        \* S = p[i] + p[i+1]
    min_distance_k,    \* k_min of the current anchor (0: none found)
    closest_primes_q,  \* the candidate primes q of the current anchor
    outcome,           \* the state of the analysis of the current anchor
    corr,              \* what the last correction search returned
    acc,               \* the accumulators of the scan
    report,            \* the numbers of the final report
    start_index,       \* density check: the index it starts at
    rerun              \* the randomized tallies of a second run of the same
                       \* script on the same input, taken in step with the first

cfgVars == <<script, num_pairs, max_radius, sieve_limit, file_exists, file_len>>

primeVars == <<prime_list, prime_set>>

anchorVars == <<anchor_sum, min_distance_k, closest_primes_q, outcome, corr>>

vars == <<cfgVars, pc, primeVars, i, anchorVars, acc, report, start_index, rerun>>

Scripts == {"PAS", "L3", "DA", "RM", "M6", "S2", "GP", "HT"}

\* Scripts that load the whole file and check its length against the scan.
FileScripts == {"L3", "DA", "RM", "M6", "S2"}

\* Scripts whose loader cuts the list.
TruncatingScripts == {"GP", "HT"}

\* Scripts with a correction search in their scan.
CorrectingScripts == {"PAS", "L3", "DA", "RM"}

\* Only r_max-final-test.py stopping at an uncorrected anchor.
HaltingScripts_OnlyRM == {"RM"}

\* Scripts that stop the scan at the first uncorrected anchor.
HaltingScripts == {"DA", "RM"}

PairChoices == (1..SmallPairs) \cup {MidPairs, MaxPairs, MaxPairs + 1}

FileChoices == (0..SmallFile) \cup {MidFile, Len(AllPrimes)}

SieveChoices == {SieveStep * n : n \in 1..(MaxValue \div SieveStep)}

\* The interval of the decay analysis (100,000 in the source).
DecayInterval == 4

\* CHECK_PAIRS of the density check (20 in the source).
CheckPairs == 2

\* The values tried for STARTING_PRIME_VALUE.
StartValues == {AllPrimes[j] : j \in 1..(SmallFile + 1)} \cup {MaxValue + 1}

NoCorrection == Result(FALSE, 0, "", 0, FALSE)

\* NUM_CONTROL_TESTS of law-III-null-hypothesis.py (5 in the source).
ControlTests == 2

\* RANDOM_SEARCH_LIMIT of r_max-final-test.py (100 in the source).
RandomSearchLimit == 2

\* r_max-final-test.py takes the average gap over prime_list[i - 10] ..
\* prime_list[i + 10]; GapWindow stands for the 10.
GapWindow == 2

\* The neighbourhood radius r_max-final-test.py falls back to (500 in the
\* source).
DefaultNeighbourhood == 5

\* The tallies of the randomized control groups.
InitControl ==
    [control_system_corrections |-> 0,  \* L3
     control_system_attempts |-> 0,     \* L3
     mod6_random_failures |-> 0,        \* RM: len(mod6_random_failures)
     max_c_mod6_observed |-> 0,         \* RM
     even_random_failures |-> 0,        \* RM: len(even_random_failures)
     max_c_even_observed |-> 0]         \* RM

InitAcc ==
    [clean_k_count |-> 0,            \* GP, HT
     max_k_min |-> 0,                \* GP
     total_pairs_tested |-> 0,       \* GP; HT: NUM_ANCHOR_POINTS_TO_TEST
     total_failures |-> 0,           \* L3, RM, M6: composite anchors counted
     radius_counts |-> EmptyDict,    \* PAS; DA: total_successful_corrections
     successful_corrections |-> <<>>,\* PAS
     correction_failures |-> <<>>,   \* PAS, DA; RM: true_system_failures
     law_ii_violations |-> <<>>,     \* PAS
     counterexample_ks |-> {},       \* PAS
     corrections_r1 |-> 0,           \* L3: true_system_corrections_r1
     corrections_r2 |-> 0,           \* L3: true_system_corrections_r2
     max_r_observed |-> 0,           \* DA, RM
     interval_exceptions |-> 0,      \* DA
     interval_corrections |-> EmptyDict, \* DA
     decay_stats |-> EmptyDict,      \* DA: interval end -> record
     failure_bins |-> [b \in {0, 2, 4} |-> EmptyDict], \* M6
     s2_composites |-> {},           \* S2
     other_composites |-> {},        \* S2
     total_s2_failures |-> 0,        \* S2
     total_other_failures |-> 0,     \* S2
     max_r_found |-> 0,              \* GP density check
     control |-> InitControl]        \* L3, RM: the randomized control groups

\* Nothing printed yet.
NoReport == [nothing |-> TRUE]

Init ==
    /\ script \in Scripts
    /\ num_pairs \in PairChoices
    /\ max_radius \in 0..MaxRadius
    /\ sieve_limit \in (IF script = "PAS" THEN SieveChoices ELSE {0})
    /\ file_exists \in (IF script = "PAS" THEN {FALSE} ELSE BOOLEAN)
    /\ file_len \in (IF file_exists THEN FileChoices ELSE {0})
    /\ pc = "start"
    /\ prime_list = <<>>
    /\ prime_set = {}
    /\ i = 0
    /\ anchor_sum = 0
    /\ min_distance_k = 0
    /\ closest_primes_q = <<>>
    /\ outcome = "Init"
    /\ corr = NoCorrection
    /\ acc = InitAcc
    /\ report = NoReport
    /\ start_index = 0
    /\ rerun = InitControl

\* The scans starting one index earlier, at the pair 2 + 3 when they can.
StartIndexOf_OneEarlier(sc, radius) ==
    CASE sc \in {"PAS", "L3", "DA", "RM"} -> radius
      [] sc = "M6" -> 1
      [] OTHER -> 0

\* The first index of the scan.
StartIndexOf(sc, radius) ==
    CASE sc \in {"PAS", "L3", "DA", "RM"} -> radius + 1
      [] sc = "M6" -> 2
      [] OTHER -> 1

\* The primes the check before the scan asks for.
RequiredCount(sc, pairs, radius) ==
    CASE sc \in {"PAS", "L3", "DA", "RM"} -> pairs + radius + 2
      [] sc \in {"M6", "S2"} -> pairs + 2
      [] sc = "GP" -> pairs + 1
      [] OTHER -> 2

\* One past the last index of the scan (the end of the range).
EndIndex ==
    CASE script = "PAS" -> num_pairs + StartIndexOf("PAS", max_radius)
      [] script = "HT" -> acc.total_pairs_tested + 1
      [] OTHER -> num_pairs + 1

(***************************************************************************)
(* Loading or sieving the primes, and the check of their number.           *)
(***************************************************************************)
Load ==
    /\ pc = "start"
    /\ UNCHANGED <<cfgVars, anchorVars, report, start_index, rerun>>
    /\ i' = StartIndexOf(script, max_radius) - 1
    /\ CASE script = "PAS" ->
              LET s == sieve_for_primes(sieve_limit)
              IN  /\ prime_list' = s.prime_list
                  /\ prime_set' = s.prime_set
                  /\ acc' = acc
                  /\ pc' = IF Len(s.prime_list)
                              < RequiredCount(script, num_pairs, max_radius)
                           THEN "aborted" ELSE "scan"
         [] script \in FileScripts ->
              IF ~file_exists
              THEN /\ UNCHANGED <<primeVars, acc>>
                   /\ pc' = "aborted"
              ELSE LET list == load_primes_from_file(file_len)
                       short == Len(list) < RequiredCount(script, num_pairs, max_radius)
                   IN  /\ prime_list' = list
                       /\ prime_set' = IF short THEN {} ELSE Range(list)
                       /\ acc' = acc
                       /\ pc' = IF short THEN "aborted" ELSE "scan"
         [] script = "GP" ->
              IF ~file_exists
              THEN /\ UNCHANGED <<primeVars, acc>>
                   /\ pc' = "FileNotFoundError"
              ELSE LET list == load_primes_truncated(file_len, num_pairs, max_radius)
                       short == Len(list) < RequiredCount(script, num_pairs, max_radius)
                   IN  /\ prime_list' = list
                       /\ prime_set' = IF short THEN {} ELSE Range(list)
                       /\ acc' = [acc EXCEPT !.total_pairs_tested =
                                     IF short THEN 0 ELSE num_pairs]
                       /\ pc' = IF short THEN "aborted" ELSE "scan"
         [] script = "HT" ->
              IF ~file_exists
              THEN /\ UNCHANGED <<primeVars, acc>>
                   /\ pc' = "FileNotFoundError"
              ELSE LET list == load_primes_truncated(file_len, num_pairs, max_radius)
                   IN  /\ prime_list' = list
                       /\ prime_set' = Range(list)
                       /\ acc' = [acc EXCEPT !.total_pairs_tested = Len(list) - 2]
                       /\ pc' = IF Len(list) < RequiredCount(script, num_pairs, max_radius)
                                THEN "aborted" ELSE "scan"

(***************************************************************************)
(* The head of the scan loop: the next index, the interval bookkeeping of  *)
(* the decay analysis, the anchor sum, and the breaks that end the loop.   *)
(***************************************************************************)
\* correction-decay-analysis.py: at a multiple of the interval the counters
\* of the interval are stored (when it had exceptions) and reset.
DA_IntervalBookkeeping(a, idx) ==
    IF idx % DecayInterval = 0
    THEN [a EXCEPT
            !.decay_stats =
                IF a.interval_exceptions > 0
                THEN [x \in DOMAIN a.decay_stats \cup {idx} |->
                        IF x = idx
                        THEN [exceptions |-> a.interval_exceptions,
                              corrections |-> a.interval_corrections]
                        ELSE a.decay_stats[x]]
                ELSE a.decay_stats,
            !.interval_exceptions = 0,
            !.interval_corrections = EmptyDict]
    ELSE a

LoopHead ==
    /\ pc = "scan"
    /\ UNCHANGED <<cfgVars, primeVars, report, start_index, rerun>>
    /\ LET next == i + 1
       IN  IF next >= EndIndex
           THEN /\ pc' = "report"
                /\ UNCHANGED <<i, anchorVars, acc>>
           ELSE /\ i' = next
                /\ min_distance_k' = 0
                /\ closest_primes_q' = <<>>
                /\ outcome' = "Init"
                /\ corr' = NoCorrection
                /\ IF script = "GP" /\ next + 1 >= Len(prime_list)
                   THEN /\ acc' = [acc EXCEPT !.total_pairs_tested = next]
                        /\ anchor_sum' = anchor_sum
                        /\ pc' = "report"
                   ELSE /\ acc' = IF script = "DA"
                                  THEN DA_IntervalBookkeeping(acc, next)
                                  ELSE acc
                        /\ IF ~AnchorReadable(prime_list, next)
                           THEN /\ anchor_sum' = anchor_sum
                                /\ pc' = "IndexError"
                           ELSE /\ anchor_sum' = AnchorAt(prime_list, next)
                                /\ pc' = IF script = "PAS"
                                            /\ AnchorAt(prime_list, next) > sieve_limit
                                         THEN "report"
                                         ELSE "distance"

(***************************************************************************)
(* The distance search of the current anchor.                              *)
(***************************************************************************)
DistanceSearchOf(sc, s_n, pset, limit) ==
    CASE sc = "PAS" -> PAS_Search(s_n, pset, limit, 1)
      [] sc \in {"L3", "RM"} -> LimitFirst_Search(s_n, pset, SafetyLimit, 1)
      [] sc \in {"M6", "S2"} -> KOnly_Search(s_n, pset, SafetyLimit, 1)
      [] sc = "DA" -> DA_Search(s_n, pset, 1)
      [] sc = "GP" -> GP_Search(s_n, pset, SafetyLimit, 1)
      [] OTHER -> HT_Search(s_n, pset, SafetyLimit, 1)

\* No script leaving the iteration when nothing was found.
SkipsExhausted_Never(sc) == FALSE

\* The scripts that leave the iteration (continue) when nothing was found.
SkipsExhausted(sc) == sc \in {"PAS", "L3", "RM", "M6", "S2"}

DistanceSearch ==
    /\ pc = "distance"
    /\ UNCHANGED <<cfgVars, primeVars, i, anchor_sum, corr, acc, report, start_index, rerun>>
    /\ LET found == DistanceSearchOf(script, anchor_sum, prime_set, sieve_limit)
       IN  /\ min_distance_k' = found.k
           /\ closest_primes_q' = found.qs
           /\ outcome' = IF found.k = 0 THEN "SearchExhausted" ELSE "DistanceSearch"
           /\ pc' = IF found.k = 0 /\ SkipsExhausted(script) THEN "scan" ELSE "classify"

(***************************************************************************)
(* The classification of the distance found, and what each script counts.  *)
(***************************************************************************)
\* The bins filling without the counter of the failures.
M6_Count_BinsOnly(a, s_n, k) ==
    [a EXCEPT !.failure_bins = [@ EXCEPT ![s_n % 6] = Incr(@, k)]]

\* mod6-classifier.py: failure_bins[anchor_mod_6][min_distance_k] += 1
M6_Count(a, s_n, k) ==
    [a EXCEPT !.total_failures = @ + 1,
              !.failure_bins = [@ EXCEPT ![s_n % 6] = Incr(@, k)]]

\* s_2-anomaly-test.py: the anchor of index 1 has its own set and counter.
S2_Count(a, idx, k) ==
    IF idx = 1
    THEN [a EXCEPT !.s2_composites = @ \cup {k}, !.total_s2_failures = @ + 1]
    ELSE [a EXCEPT !.other_composites = @ \cup {k}, !.total_other_failures = @ + 1]

\* generate-prime.py and heuristics-test.py: the tally of the clean distances.
Heuristic_Count(sc, a, k, pset) ==
    [a EXCEPT !.clean_k_count = IF is_clean(k, pset) THEN @ + 1 ELSE @,
              !.max_k_min = IF sc = "GP" /\ k > @ THEN k ELSE @]

Classify ==
    /\ pc = "classify"
    /\ UNCHANGED <<cfgVars, primeVars, i, anchor_sum, min_distance_k,
                   closest_primes_q, corr, report, start_index, rerun>>
    /\ IF script \in TruncatingScripts
       THEN /\ acc' = Heuristic_Count(script, acc, min_distance_k, prime_set)
            /\ outcome' = IF is_clean(min_distance_k, prime_set) THEN "Clean"
                          ELSE IF min_distance_k = 0 THEN outcome
                          ELSE "Composite"
            /\ pc' = "scan"
       ELSE IF ~is_k_composite(min_distance_k, prime_set)
       THEN /\ acc' = acc
            /\ outcome' = "Clean"
            /\ pc' = "scan"
       ELSE CASE script = "PAS" ->
                   IF min_distance_k % 2 = 0
                   THEN /\ acc' = [acc EXCEPT !.law_ii_violations =
                                     Append(@, [anchor |-> anchor_sum,
                                                k |-> min_distance_k])]
                        /\ outcome' = "LawIIViolation"
                        /\ pc' = "scan"
                   ELSE /\ acc' = [acc EXCEPT !.counterexample_ks =
                                     @ \cup {min_distance_k}]
                        /\ outcome' = "Composite"
                        /\ pc' = "correct"
              [] script \in {"L3", "RM"} ->
                   /\ acc' = [acc EXCEPT !.total_failures = @ + 1]
                   /\ outcome' = "Composite"
                   /\ pc' = "correct"
              [] script = "DA" ->
                   /\ acc' = [acc EXCEPT !.interval_exceptions = @ + 1]
                   /\ outcome' = "Composite"
                   /\ pc' = "correct"
              [] script = "M6" ->
                   /\ outcome' = "Composite"
                   /\ IF anchor_sum % 6 \in {0, 2, 4}
                      THEN /\ acc' = M6_Count(acc, anchor_sum, min_distance_k)
                           /\ pc' = "scan"
                      ELSE /\ acc' = [acc EXCEPT !.total_failures = @ + 1]
                           /\ pc' = "KeyError"
              [] script = "S2" ->
                   /\ acc' = S2_Count(acc, i, min_distance_k)
                   /\ outcome' = "Composite"
                   /\ pc' = "scan"

(***************************************************************************)
(* The correction search of a composite anchor, and what each script       *)
(* records about it.                                                       *)
(***************************************************************************)
CorrectionOf(sc, list, pset, idx, qs, radius) ==
    CASE sc = "PAS" -> PAS_CandidateLoop(list, pset, idx, qs, 1, radius)
      [] sc = "DA" -> DA_RadiusLoop(list, pset, idx, qs[1], 1, radius)
      [] sc = "RM" -> RM_RadiusLoop(list, pset, idx, qs[1], 1, radius)
      [] OTHER -> L3_Correction(list, pset, idx, qs[1])

\* The record of a corrected event written once for each candidate.
PAS_Record_EveryCandidate(a, c, s_n, qs, k, radius) ==
    IF c.corrected
    THEN [a EXCEPT !.successful_corrections =
                      @ \o [n \in 1..Len(qs) |->
                              [original_anchor |-> s_n, prime_q |-> c.q,
                               composite_k |-> k, radius |-> c.radius,
                               corrected_by |-> c.by]],
                   !.radius_counts =
                      [x \in DOMAIN a.radius_counts \cup {c.radius} |->
                          IF x = c.radius
                          THEN Get(a.radius_counts, x) + Len(qs)
                          ELSE a.radius_counts[x]]]
    ELSE [a EXCEPT !.correction_failures =
                      Append(@, [anchor |-> s_n, failed_primes_q |-> qs, k |-> k])]

\* prime-anchor-system.py: one entry in successful_corrections and one in
\* radius_counts for a corrected event, one entry in correction_failures
\* for an event no candidate corrected.
PAS_Record(a, c, s_n, qs, k, radius) ==
    IF c.corrected
    THEN [a EXCEPT !.successful_corrections =
                      Append(@, [original_anchor |-> s_n, prime_q |-> c.q,
                                 composite_k |-> k, radius |-> c.radius,
                                 corrected_by |-> c.by]),
                   !.radius_counts = Incr(@, c.radius)]
    ELSE [a EXCEPT !.correction_failures =
                      Append(@, [anchor |-> s_n, failed_primes_q |-> qs, k |-> k])]

\* The record of a correction that leaves out the counter of the interval.
DA_Record_TotalsOnly(a, c, s_n, k) ==
    IF c.corrected
    THEN [a EXCEPT !.radius_counts = Incr(@, c.radius),
                   !.max_r_observed = IF c.radius > @ THEN c.radius ELSE @]
    ELSE [a EXCEPT !.correction_failures =
                      Append(@, [original_anchor |-> s_n, prime_q |-> c.q,
                                 composite_k |-> k])]

\* correction-decay-analysis.py
DA_Record(a, c, s_n, k) ==
    IF c.corrected
    THEN [a EXCEPT !.radius_counts = Incr(@, c.radius),
                   !.interval_corrections = Incr(@, c.radius),
                   !.max_r_observed = IF c.radius > @ THEN c.radius ELSE @]
    ELSE [a EXCEPT !.correction_failures =
                      Append(@, [original_anchor |-> s_n, prime_q |-> c.q,
                                 composite_k |-> k])]

\* r_max-final-test.py
RM_Record(a, c, idx, s_n, k) ==
    IF c.corrected
    THEN [a EXCEPT !.max_r_observed = IF c.radius > @ THEN c.radius ELSE @]
    ELSE [a EXCEPT !.correction_failures =
                      Append(@, [n_index |-> idx, S_n |-> s_n, q_prime |-> c.q,
                                 k_composite |-> k])]

\* law-III-null-hypothesis.py
L3_Record(a, c) ==
    IF c.corrected /\ c.radius = 1 THEN [a EXCEPT !.corrections_r1 = @ + 1]
    ELSE IF c.corrected THEN [a EXCEPT !.corrections_r2 = @ + 1]
    ELSE a

RecordOf(sc, a, c, idx, s_n, qs, k, radius) ==
    CASE sc = "PAS" -> PAS_Record(a, c, s_n, qs, k, radius)
      [] sc = "DA" -> DA_Record(a, c, s_n, k)
      [] sc = "RM" -> RM_Record(a, c, idx, s_n, k)
      [] OTHER -> L3_Record(a, c)

(***************************************************************************)
(* The randomized control groups.  random.randint(-n, n) returns any       *)
(* offset of -n..n and no script seeds the generator, so a loop over       *)
(* draws can end in any of the results some sequence of draws gives.       *)
(***************************************************************************)
\* int(a / b) for b > 0: the quotient cut toward zero.
TruncDiv(a, b) == IF a >= 0 THEN a \div b ELSE -((-a) \div b)

\* s_control_mod6 = s_control_base - (s_control_base % 6)
ForceMod6(base) == base - (base % 6)

\* s_control_even = s_control_base if s_control_base % 2 == 0
\*                  else s_control_base + 1
ForceEven(base) == IF base % 2 = 0 THEN base ELSE base + 1

\* The offsets whose control anchor lies at a clean distance of q_prime.
CleanMod6Offsets(s_n, q_prime, pset, n) ==
    {off \in (-n)..n : is_clean_k(Abs(ForceMod6(s_n + off) - q_prime), pset)}

CleanEvenOffsets(s_n, q_prime, pset, n) ==
    {off \in (-n)..n : is_clean_k(Abs(ForceEven(s_n + off) - q_prime), pset)}

\* law-III-null-hypothesis.py:
\* neighborhood_radius = int(((prime_list[i+2] - prime_list[i-2]) / 4) * 2)
L3_neighborhood_radius(list, idx) ==
    TruncDiv(At(list, idx + 2) - At(list, idx - 2), 2)

\* The numbers of clean draws that ControlTests draws can give.
L3_ControlTallies(s_n, q_prime, pset, n) ==
    LET clean == CleanMod6Offsets(s_n, q_prime, pset, n)
    IN  {t \in 0..ControlTests :
            /\ t > 0 => clean # {}
            /\ t < ControlTests => clean # (-n)..n}

\* control_system_attempts += 1 for every draw, control_system_corrections
\* += 1 for every clean one.
L3_Control(ctrl, t) ==
    [ctrl EXCEPT !.control_system_attempts = @ + ControlTests,
                 !.control_system_corrections = @ + t]

\* r_max-final-test.py:
\* neighborhood_radius = int(((prime_list[i+10] - prime_list[i-10]) / 20)
\*                           * MAX_RADIUS_LIMIT), 500 when that is <= 0
RM_neighborhood_radius(list, idx, radius) ==
    LET n == TruncDiv((At(list, idx + GapWindow) - At(list, idx - GapWindow))
                      * radius, 2 * GapWindow)
    IN  IF n <= 0 THEN DefaultNeighbourhood ELSE n

\* The attempt at which a loop of RandomSearchLimit draws can find its first
\* clean anchor; 0 for a loop that finds none.
FirstHits(clean, n) ==
    {c \in 1..RandomSearchLimit :
        clean # {} /\ (c > 1 => clean # (-n)..n)}
    \cup (IF clean # (-n)..n THEN {0} ELSE {})

\* Systems B and C: the largest attempt count seen, and one more failure for
\* a loop without a clean draw.
RM_Control(ctrl, c, e) ==
    [ctrl EXCEPT
        !.max_c_mod6_observed = IF c > @ THEN c ELSE @,
        !.mod6_random_failures = IF c = 0 THEN @ + 1 ELSE @,
        !.max_c_even_observed = IF e > @ THEN e ELSE @,
        !.even_random_failures = IF e = 0 THEN @ + 1 ELSE @]

Correct ==
    /\ pc = "correct"
    /\ UNCHANGED <<cfgVars, primeVars, i, anchor_sum, min_distance_k,
                   closest_primes_q, report, start_index>>
    /\ LET c == CorrectionOf(script, prime_list, prime_set, i,
                             closest_primes_q, max_radius)
           recorded == RecordOf(script, acc, c, i, anchor_sum,
                                closest_primes_q, min_distance_k, max_radius)
       IN  /\ corr' = c
           /\ IF c.error
              THEN /\ UNCHANGED <<acc, rerun, outcome>>
                   /\ pc' = "IndexError"
              ELSE /\ outcome' = IF c.corrected THEN "Corrected" ELSE "Uncorrected"
                   /\ IF ~c.corrected /\ script \in HaltingScripts
                      THEN /\ acc' = recorded
                           /\ rerun' = rerun
                           /\ pc' = "report"
                      ELSE IF script = "L3"
                      THEN IF ~(InRange(prime_list, i + 2)
                                /\ InRange(prime_list, i - 2))
                           THEN /\ acc' = recorded
                                /\ rerun' = rerun
                                /\ pc' = "IndexError"
                           ELSE IF L3_neighborhood_radius(prime_list, i) < 0
                           THEN /\ acc' = [recorded EXCEPT
                                       !.control.control_system_attempts = @ + 1]
                                /\ rerun' = [rerun EXCEPT
                                       !.control_system_attempts = @ + 1]
                                /\ pc' = "ValueError"
                           ELSE LET tallies ==
                                       L3_ControlTallies(anchor_sum, c.q, prime_set,
                                           L3_neighborhood_radius(prime_list, i))
                                IN  /\ \E t \in tallies :
                                          acc' = [recorded EXCEPT
                                                    !.control = L3_Control(@, t)]
                                    /\ \E t \in tallies :
                                          rerun' = L3_Control(rerun, t)
                                    /\ pc' = "scan"
                      ELSE IF script = "RM"
                      THEN IF ~(InRange(prime_list, i + GapWindow)
                                /\ InRange(prime_list, i - GapWindow))
                           THEN /\ acc' = recorded
                                /\ rerun' = rerun
                                /\ pc' = "IndexError"
                           ELSE LET n == RM_neighborhood_radius(prime_list, i,
                                                                max_radius)
                                    mod6 == FirstHits(CleanMod6Offsets(
                                                anchor_sum, c.q, prime_set, n), n)
                                    even == FirstHits(CleanEvenOffsets(
                                                anchor_sum, c.q, prime_set, n), n)
                                IN  /\ \E b \in mod6, e \in even :
                                          acc' = [recorded EXCEPT
                                                    !.control = RM_Control(@, b, e)]
                                    /\ \E b \in mod6, e \in even :
                                          rerun' = RM_Control(rerun, b, e)
                                    /\ pc' = "scan"
                      ELSE /\ acc' = recorded
                           /\ rerun' = rerun
                           /\ pc' = "scan"

(***************************************************************************)
(* The final report.                                                       *)
(***************************************************************************)
\* correction-decay-analysis.py: the report walks the stored intervals and
\* adds up their exceptions and their corrections at radius 1 and up to 2.
RECURSIVE SumExceptions(_, _)
SumExceptions(stats, keys) ==
    IF keys = {} THEN 0
    ELSE LET x == CHOOSE y \in keys : TRUE
         IN  stats[x].exceptions + SumExceptions(stats, keys \ {x})

RECURSIVE SumCorrections(_, _, _)
SumCorrections(stats, keys, radius) ==
    IF keys = {} THEN 0
    ELSE LET x == CHOOSE y \in keys : TRUE
         IN  Get(stats[x].corrections, radius)
             + SumCorrections(stats, keys \ {x}, radius)

\* The divisors whose being zero ends the report with ZeroDivisionError:
\* total_failures_found and control_system_attempts (Law III),
\* total_possible_k = (R_max + 1) // 2 and total_pairs_tested (heuristic
\* report), NUM_ANCHOR_POINTS_TO_TEST (control test).
ReportDivides ==
    CASE script = "L3" -> acc.total_failures # 0
                          /\ acc.control.control_system_attempts # 0
      [] script = "GP" -> (acc.max_k_min + 1) \div 2 # 0
                          /\ acc.total_pairs_tested # 0
      [] script = "HT" -> acc.total_pairs_tested # 0
      [] OTHER -> TRUE

\* What each script prints at the end of its run.
PAS_Report(a, idx, radius) ==
    [total_pairs_tested |-> (idx + 1) - StartIndexOf("PAS", radius),
     total_exceptions |-> Len(a.successful_corrections)
                          + Len(a.law_ii_violations)
                          + Len(a.correction_failures),
     law_ii_violations |-> Len(a.law_ii_violations),
     counterexample_ks |-> a.counterexample_ks,
     correction_failures |-> Len(a.correction_failures),
     radius_counts |-> IF Len(a.successful_corrections) > 0
                       THEN a.radius_counts ELSE EmptyDict]

DA_Report(a) ==
    [decay_stats |-> a.decay_stats,
     cumulative_exceptions_total |->
        SumExceptions(a.decay_stats, DOMAIN a.decay_stats),
     cumulative_r1_total |->
        SumCorrections(a.decay_stats, DOMAIN a.decay_stats, 1),
     cumulative_r2_total |->
        SumCorrections(a.decay_stats, DOMAIN a.decay_stats, 1)
        + SumCorrections(a.decay_stats, DOMAIN a.decay_stats, 2),
     max_r_observed |-> a.max_r_observed]

RM_Report(a) ==
    [total_law_I_failures |-> a.total_failures,
     true_system_failures |-> Len(a.correction_failures),
     max_r_observed |-> a.max_r_observed,
     mod6_random_failures |-> a.control.mod6_random_failures,
     max_c_mod6_observed |-> a.control.max_c_mod6_observed,
     even_random_failures |-> a.control.even_random_failures,
     max_c_even_observed |-> a.control.max_c_even_observed]

L3_Report(a) ==
    [total_failures_found |-> a.total_failures,
     total_corrected |-> a.corrections_r1 + a.corrections_r2,
     control_system_corrections |-> a.control.control_system_corrections,
     control_system_attempts |-> a.control.control_system_attempts]

M6_Report(a) ==
    [total_failures |-> a.total_failures,
     failure_bins |-> a.failure_bins]

S2_Report(a) ==
    [total_s2_failures |-> a.total_s2_failures,
     s2_composites |-> a.s2_composites,
     total_other_failures |-> a.total_other_failures,
     other_composites |-> a.other_composites]

\* p_observed = clean_k_count / total_pairs_tested, kept as its two terms.
GP_Report(a) ==
    [R_max |-> a.max_k_min,
     p_observed |-> [clean |-> a.clean_k_count, tested |-> a.total_pairs_tested]]

HT_Report(a) ==
    [p_observed |-> [clean |-> a.clean_k_count, tested |-> a.total_pairs_tested]]

ReportOf(sc, a, idx, radius) ==
    CASE sc = "PAS" -> PAS_Report(a, idx, radius)
      [] sc = "DA" -> DA_Report(a)
      [] sc = "RM" -> RM_Report(a)
      [] sc = "L3" -> L3_Report(a)
      [] sc = "M6" -> M6_Report(a)
      [] sc = "S2" -> S2_Report(a)
      [] sc = "GP" -> GP_Report(a)
      [] OTHER -> HT_Report(a)

Report ==
    /\ pc = "report"
    /\ UNCHANGED <<cfgVars, primeVars, i, anchorVars, acc, start_index, rerun>>
    /\ IF ~ReportDivides
       THEN /\ report' = report
            /\ pc' = "ZeroDivisionError"
       ELSE /\ report' = ReportOf(script, acc, i, max_radius)
            /\ pc' = IF script = "GP" THEN "density_start" ELSE "done"

(***************************************************************************)
(* generate-prime.py, part 3: the density check calls                      *)
(* find_correction_radius on CHECK_PAIRS anchors from the first prime that *)
(* is at least STARTING_PRIME_VALUE.                                       *)
(***************************************************************************)
\* for i, p in enumerate(p_list): if p >= value: start_index = i; break
FirstIndexAtLeast(p_list, value) ==
    LET hits == {j \in 0..(Len(p_list) - 1) : At(p_list, j) >= value}
    IN  IF hits = {} THEN 0
        ELSE CHOOSE j \in hits : \A h \in hits : j <= h

DensityStart ==
    /\ pc = "density_start"
    /\ UNCHANGED <<cfgVars, primeVars, anchorVars, report, rerun>>
    /\ \E STARTING_PRIME_VALUE \in StartValues :
          LET first == FirstIndexAtLeast(prime_list, STARTING_PRIME_VALUE)
          IN  /\ start_index' = first
              /\ i' = first - 1
              /\ acc' = [acc EXCEPT !.max_r_found = 0]
              /\ pc' = IF first = 0 THEN "done" ELSE "density"

OutcomeOfStatus(status) ==
    CASE status = "FAIL: Too far" -> "SearchExhausted"
      [] status = "SUCCESS: Law I Held" -> "Clean"
      [] status = "CORRECTED" -> "Corrected"
      [] OTHER -> "Uncorrected"

DensityStep ==
    /\ pc = "density"
    /\ UNCHANGED <<cfgVars, primeVars, report, start_index, rerun>>
    /\ LET next == i + 1
       IN  IF next >= start_index + CheckPairs \/ next + 1 >= Len(prime_list)
           THEN /\ pc' = "done"
                /\ UNCHANGED <<i, anchorVars, acc>>
           ELSE LET result == find_correction_radius(prime_list, prime_set,
                                                     next, max_radius)
                IN  /\ i' = next
                    /\ anchor_sum' = AnchorAt(prime_list, next)
                    /\ min_distance_k' = result.k
                    /\ closest_primes_q' = IF result.q = 0 THEN <<>>
                                           ELSE <<result.q>>
                    /\ outcome' = OutcomeOfStatus(result.status)
                    /\ corr' = Result(result.status = "CORRECTED",
                                      IF result.status = "CORRECTED"
                                      THEN result.r ELSE 0,
                                      result.by, result.q, FALSE)
                    /\ acc' = IF result.status # "FAIL: Too far"
                                 /\ result.r > 0 /\ result.r > acc.max_r_found
                              THEN [acc EXCEPT !.max_r_found = result.r]
                              ELSE acc
                    /\ pc' = "density"

Next ==
    \/ Load
    \/ LoopHead
    \/ DistanceSearch
    \/ Classify
    \/ Correct
    \/ Report
    \/ DensityStart
    \/ DensityStep

Spec == Init /\ [][Next]_vars

(***************************************************************************)
(* The runs of correction-decay-analysis.py alone.  A run goes on until it *)
(* has ended: the interpreter executes the next statement of the script as *)
(* long as there is one.                                                   *)
(***************************************************************************)
InitDA == Init /\ script = "DA"

NextDA ==
    \/ Load
    \/ LoopHead
    \/ DistanceSearch
    \/ Classify
    \/ Correct
    \/ Report

SpecDA == InitDA /\ [][NextDA]_vars /\ WF_vars(NextDA)

(***************************************************************************)
(* find_correction_radius on its own: the function is applied once to a    *)
(* list, its set, an anchor index and a radius.  The lists are the         *)
(* ascending lists of primes up to FcrMaxValue with at most FcrLen         *)
(* entries (a prime file need not be complete); the index is one the       *)
(* density check can pass, 1 <= anchor_index and anchor_index + 1 < len.   *)
(***************************************************************************)
FcrMaxValue == 23

FcrLen == 5

FcrValues == {n \in 2..FcrMaxValue : IsPrime(n)}

\* The elements of a set of numbers in increasing order.
RECURSIVE SortedSeq(_)
SortedSeq(T) ==
    IF T = {} THEN <<>>
    ELSE LET m == CHOOSE x \in T : \A y \in T : x <= y
         IN  <<m>> \o SortedSeq(T \ {m})

FcrLists ==
    {SortedSeq(T) : T \in {U \in SUBSET FcrValues :
                              Cardinality(U) >= 3 /\ Cardinality(U) <= FcrLen}}

InitFCR ==
    /\ script = "GP"
    /\ num_pairs = 1
    /\ max_radius \in 0..MaxRadius
    /\ sieve_limit = 0
    /\ file_exists = TRUE
    /\ prime_list \in FcrLists
    /\ file_len = Len(prime_list)
    /\ prime_set = Range(prime_list)
    /\ pc = "call"
    /\ i \in 1..(Len(prime_list) - 2)
    /\ anchor_sum = 0
    /\ min_distance_k = 0
    /\ closest_primes_q = <<>>
    /\ outcome = "Init"
    /\ corr = NoCorrection
    /\ acc = InitAcc
    /\ report = NoReport
    /\ start_index = i
    /\ rerun = InitControl

\* result = find_correction_radius(p_list, p_set, i, MAX_CORRECTION_RADIUS)
\* and what the density check does with it: max_r_found.
FCR_Call ==
    /\ pc = "call"
    /\ UNCHANGED <<cfgVars, primeVars, i, report, start_index, rerun>>
    /\ LET result == find_correction_radius(prime_list, prime_set, i, max_radius)
       IN  /\ anchor_sum' = AnchorAt(prime_list, i)
           /\ min_distance_k' = result.k
           /\ closest_primes_q' = IF result.q = 0 THEN <<>> ELSE <<result.q>>
           /\ outcome' = OutcomeOfStatus(result.status)
           /\ corr' = Result(result.status = "CORRECTED",
                             IF result.status = "CORRECTED" THEN result.r ELSE 0,
                             result.by, result.q, FALSE)
           /\ acc' = IF result.status # "FAIL: Too far"
                        /\ result.r > 0 /\ result.r > acc.max_r_found
                     THEN [acc EXCEPT !.max_r_found = result.r]
                     ELSE acc
           /\ pc' = "returned"

NextFCR == FCR_Call

SpecFCR == InitFCR /\ [][NextFCR]_vars

(***************************************************************************)
(* The sieves as functions of their own: the limit is any number from 2 to *)
(* SieveMax, script tells the variant called ("PAS": sieve_for_primes,     *)
(* "GP": sieve_up_to_r).                                                   *)
(***************************************************************************)
SieveMax == 50

InitSieve ==
    /\ script \in {"PAS", "GP"}
    /\ num_pairs = 1
    /\ max_radius = 0
    /\ sieve_limit \in 2..SieveMax
    /\ file_exists = FALSE
    /\ file_len = 0
    /\ prime_list = <<>>
    /\ prime_set = {}
    /\ pc = "call"
    /\ i = 0
    /\ anchor_sum = 0
    /\ min_distance_k = 0
    /\ closest_primes_q = <<>>
    /\ outcome = "Init"
    /\ corr = NoCorrection
    /\ acc = InitAcc
    /\ report = NoReport
    /\ start_index = 0
    /\ rerun = InitControl

\* prime_list, prime_set = sieve_for_primes(SIEVE_LIMIT)
\* primes_up_to_R = sieve_up_to_r(R_max)
Sieve_Call ==
    /\ pc = "call"
    /\ UNCHANGED <<cfgVars, i, anchorVars, acc, report, start_index, rerun>>
    /\ IF script = "PAS"
       THEN LET s == sieve_for_primes(sieve_limit)
            IN  prime_list' = s.prime_list /\ prime_set' = s.prime_set
       ELSE LET list == sieve_up_to_r(sieve_limit)
            IN  prime_list' = list /\ prime_set' = Range(list)
    /\ pc' = "returned"

NextSieve == Sieve_Call

SpecSieve == InitSieve /\ [][NextSieve]_vars

(***************************************************************************)
(* Properties.                                                             *)
(***************************************************************************)
\* The smallest d >= 1 such that s - d or s + d is a prime number.
TrueDistance(s) ==
    CHOOSE d \in 1..s :
        /\ (s - d) \in TruePrimes \/ (s + d) \in TruePrimes
        /\ \A e \in 1..(d - 1) : (s - e) \notin TruePrimes /\ (s + e) \notin TruePrimes

\* The outcomes of an anchor whose distance a script has classified.
ClassifiedOutcomes ==
    {"Clean", "Composite", "Corrected", "Uncorrected", "LawIIViolation"}

\* The prime list of the run is shorter than the file it was loaded from.
Truncated == script \in TruncatingScripts /\ Len(prime_list) < file_len

\* C1: for every anchor S = p[i] + p[i+1] that a scan classifies, the
\* recorded k_min is the smallest positive d such that S - d or S + d is a
\* prime number, also when the loaded list was cut to NUM_ANCHOR_POINTS +
\* MAX_CORRECTION_RADIUS + 2 entries.
C1_KMinIsNearestPrimeDistance ==
    outcome \in ClassifiedOutcomes => min_distance_k = TrueDistance(anchor_sum)

\* C2: an anchor is Clean exactly when k_min = 1 or k_min is a prime number,
\* and Composite exactly when k_min > 1 and k_min is not a prime number: the
\* membership test in the prime set agrees with the primality of k_min.
C2_ClassificationAgreesWithPrimality ==
    /\ outcome = "Clean" => min_distance_k = 1 \/ min_distance_k \in TruePrimes
    /\ outcome \in ClassifiedOutcomes \ {"Clean"} =>
          min_distance_k > 1 /\ min_distance_k \notin TruePrimes
    /\ outcome \in ClassifiedOutcomes /\ prime_set # {} =>
          (min_distance_k \in prime_set <=> min_distance_k \in TruePrimes)

\* An anchor whose distance is not prime has been classified Composite.
C2_Witness ==
    /\ outcome = "Composite"
    /\ min_distance_k > 1
    /\ min_distance_k \notin TruePrimes

\* The current anchor went to a correction search.
InCorrection == pc = "correct" \/ outcome \in {"Corrected", "Uncorrected"}

\* The primes at distance k of s, the lower one first.
PrimesAtDistance(s, k, pset) ==
    (IF (s - k) \in pset THEN <<s - k>> ELSE <<>>)
    \o (IF (s + k) \in pset THEN <<s + k>> ELSE <<>>)

\* C3: when the distance search stops at d = k_min and both S - k_min and
\* S + k_min are prime, both are recorded as candidate targets q of the
\* correction search, the lower one first; when one side only is prime, that
\* prime is the single candidate.
C3_BothCandidatesRecorded ==
    InCorrection =>
        closest_primes_q = PrimesAtDistance(anchor_sum, min_distance_k, prime_set)

\* The anchor of index j exists and lies at distance 1 or at a prime distance
\* of q.
NeighbourClean(list, j, q) ==
    /\ j >= 1
    /\ j + 1 < Len(list)
    /\ LET k == Abs(AnchorAt(list, j) - q)
       IN  k = 1 \/ k \in TruePrimes

\* The radii in 1..maxr at which a neighbouring anchor of index idx corrects q.
CorrectingRadii(list, idx, q, maxr) ==
    {r \in 1..maxr : NeighbourClean(list, idx - r, q) \/ NeighbourClean(list, idx + r, q)}

\* C4: the correction search of a composite anchor of index i with target q
\* reports Corrected(r) with r the smallest radius in 1..maxRadius at which
\* |S_{i-r} - q| or |S_{i+r} - q| is 1 or prime, the previous anchor tried
\* before the next one; a clean neighbour at radius 1 gives Corrected(1).
C4_SmallestRadiusPrevFirst ==
    outcome \in {"Corrected", "Uncorrected"} /\ script # "L3" =>
        LET radii == CorrectingRadii(prime_list, i, corr.q, max_radius)
            first == CorrectingRadii(prime_list, i, closest_primes_q[1], max_radius)
        IN  /\ outcome = "Corrected" =>
                /\ corr.radius \in radii
                /\ \A r \in radii : corr.radius <= r
                /\ corr.by = "prev" <=>
                      NeighbourClean(prime_list, i - corr.radius, corr.q)
            /\ 1 \in first =>
                  outcome = "Corrected" /\ corr.radius = 1
                  /\ corr.q = closest_primes_q[1]

\* A correction at radius 1 by the next anchor: the previous one was tried
\* and did not correct.
C4_Witness ==
    /\ outcome = "Corrected"
    /\ script # "L3"
    /\ corr.radius = 1
    /\ corr.by = "next"

\* The smallest element of a non-empty set of numbers.
Min(S) == CHOOSE x \in S : \A y \in S : x <= y

\* The positions of the candidates that some neighbouring anchor corrects
\* within the radii 1..maxr.
Correctable(list, idx, qs, maxr) ==
    {n \in 1..Len(qs) : CorrectingRadii(list, idx, qs[n], maxr) # {}}

\* C5: with several candidates q of one composite anchor in
\* prime-anchor-system.py the event is Corrected if and only if some
\* candidate has a clean neighbouring anchor at a radius <= maxRadius; the
\* candidates are the outer loop and the radii the inner one, the search
\* stops at the first success, and one event adds exactly one entry to the
\* correction histogram (none when it is not corrected).
C5_Step ==
    pc = "correct" /\ script = "PAS" =>
        LET able == Correctable(prime_list, i, closest_primes_q, max_radius)
            one == IF able # {} THEN 1 ELSE 0
        IN  /\ outcome' = IF able # {} THEN "Corrected" ELSE "Uncorrected"
            /\ able # {} =>
                  /\ corr'.q = closest_primes_q[Min(able)]
                  /\ corr'.radius =
                        Min(CorrectingRadii(prime_list, i, corr'.q, max_radius))
                  /\ Get(acc'.radius_counts, corr'.radius)
                        = Get(acc.radius_counts, corr'.radius) + 1
            /\ SumValues(acc'.radius_counts) = SumValues(acc.radius_counts) + one
            /\ Len(acc'.successful_corrections)
                  = Len(acc.successful_corrections) + one
            /\ Len(acc'.correction_failures)
                  = Len(acc.correction_failures) + (1 - one)

C5_AnyCandidateOneHistogramEntry == [][C5_Step]_vars

\* An anchor with two candidates has been corrected and the histogram holds
\* one entry.
C5_Witness ==
    /\ script = "PAS"
    /\ outcome = "Corrected"
    /\ Len(closest_primes_q) = 2
    /\ SumValues(acc.radius_counts) = 1

\* The anchors of the run that were composite and that no radius corrected.
UncorrectedEvents ==
    IF script = "L3"
    THEN acc.total_failures - acc.corrections_r1 - acc.corrections_r2
    ELSE Len(acc.correction_failures)

\* The corrections of every radius in the stored intervals of the decay
\* report.
RECURSIVE StoredCorrections(_, _)
StoredCorrections(stats, keys) ==
    IF keys = {} THEN 0
    ELSE LET x == CHOOSE y \in keys : TRUE
         IN  SumValues(stats[x].corrections) + StoredCorrections(stats, keys \ {x})

\* The number of uncorrected anchors that can be read off the final report:
\* the line of prime-anchor-system.py and of r_max-final-test.py, the
\* difference of the two totals of law-III-null-hypothesis.py, and for the
\* decay report the exceptions of its rows that no stored correction covers.
UncorrectedShown ==
    CASE script = "PAS" -> report.correction_failures
      [] script = "RM" -> report.true_system_failures
      [] script = "L3" -> report.total_failures_found - report.total_corrected
      [] OTHER -> report.cumulative_exceptions_total
                  - StoredCorrections(report.decay_stats, DOMAIN report.decay_stats)

\* C6: every composite anchor that no radius up to maxRadius corrects ends
\* Uncorrected and is recorded in the results of the run; none of them is
\* missing from the final report.
C6_UncorrectedReported ==
    pc = "done" /\ script \in CorrectingScripts =>
        UncorrectedShown = UncorrectedEvents

\* C7: for a completed scan the sum of the per-radius correction histogram
\* plus the number of Uncorrected events equals the total number of
\* composite anchors the scan reports.
C7_HistogramSums ==
    /\ pc = "done" /\ script = "PAS" =>
          SumValues(acc.radius_counts) + Len(acc.correction_failures)
             = report.total_exceptions
    /\ pc = "done" /\ script = "DA" =>
          SumValues(acc.radius_counts) + Len(acc.correction_failures)
             = report.cumulative_exceptions_total

\* The indices whose anchor the scan of the heuristic scripts has read, and
\* those among them whose distance search gave up.
ScannedIndices == {j \in 1..i : j + 1 < Len(prime_list)}

ExhaustedIndices ==
    {j \in ScannedIndices :
        DistanceSearchOf(script, AnchorAt(prime_list, j), prime_set, sieve_limit).k = 0}

\* The heuristic script has printed its ratio (generate-prime.py goes on
\* with the density check).
RatioPrinted ==
    \/ script = "HT" /\ pc = "done"
    \/ script = "GP" /\ pc = "density_start"

\* C8: an anchor whose search passes the safety limit without a prime
\* (k_min left at 0) is never treated as clean or as composite: it adds
\* nothing to the clean count, the composite count, or the denominator of a
\* clean/observed ratio.
C8_ExhaustedNotCounted ==
    RatioPrinted /\ ExhaustedIndices # {} =>
        /\ report.p_observed.tested
              <= Cardinality(ScannedIndices) - Cardinality(ExhaustedIndices)
        /\ report.p_observed.clean
              <= Cardinality(ScannedIndices) - Cardinality(ExhaustedIndices)

\* The scripts that leave the iteration with "if min_distance_k == 0:
\* continue" and print no count of the anchors they went through.
ContinueScripts == {"L3", "RM", "M6", "S2"}

\* C9: every anchor whose distance search is exhausted surfaces in the final
\* report, counted or logged: the step that gives up on an anchor leaves a
\* trace in what the report is computed from.
C9_Step ==
    pc = "distance" /\ script \in ContinueScripts /\ outcome' = "SearchExhausted"
        => acc' # acc

C9_ExhaustedSurfaces == [][C9_Step]_vars

\* The scan is at an index i whose anchor it has read.
AtAnchor == pc \in {"distance", "classify", "correct"}

NeededCount ==
    num_pairs + 2 + (IF script \in CorrectingScripts THEN max_radius ELSE 0)

\* The prime file is missing, or the sequence the run starts from is shorter
\* than the scan needs.
ShortInput ==
    IF script = "PAS" THEN pc # "start" /\ Len(prime_list) < NeededCount
    ELSE ~file_exists \/ file_len < NeededCount

\* C11: when the prime file is missing, or the loaded or sieved sequence
\* holds fewer primes than the configured scan needs, the run aborts before
\* any anchor is analysed and produces no scan statistics; no shortened scan
\* is run on a short list.
C11_ShortInputAborts ==
    ShortInput =>
        /\ pc \in {"start", "aborted", "FileNotFoundError"}
        /\ outcome = "Init"
        /\ report = NoReport

\* The scripts whose correction search is a loop over the radii
\* 1..maxRadius (law-III-null-hypothesis.py writes the radii 1 and 2 out).
RadiusLoopScripts == {"PAS", "DA", "RM", "GP"}

\* C12: with maxRadius = 0 every composite anchor is reported Uncorrected at
\* once: the body of the radius loop is not executed, no neighbouring anchor
\* is read, and no index leaves the sequence.
C12_Step ==
    max_radius = 0 /\ script \in RadiusLoopScripts =>
        /\ pc' # "IndexError"
        /\ pc = "correct" =>
              /\ outcome' = "Uncorrected"
              /\ corr' = Result(FALSE, 0, "", corr'.q, FALSE)
              /\ UncorrectedEvents' = UncorrectedEvents + 1
              /\ acc'.radius_counts = acc.radius_counts
              /\ acc'.max_r_observed = acc.max_r_observed
        /\ pc = "density" /\ i' # i =>
              /\ outcome' # "Corrected"
              /\ is_k_composite(min_distance_k', prime_set) =>
                    /\ outcome' = "Uncorrected"
                    /\ corr'.radius = 0
                    /\ acc' = acc

C12_ZeroRadiusUncorrected == [][C12_Step]_vars

\* With maxRadius = 0 an anchor is Uncorrected although the anchor next to it
\* lies at a clean distance of its target: radius 1 was not looked at.
C12_Witness ==
    /\ max_radius = 0
    /\ script \in RadiusLoopScripts
    /\ outcome = "Uncorrected"
    /\ CorrectingRadii(prime_list, i, closest_primes_q[1], 1) # {}

\* The anchor of index j may be used by find_correction_radius (1 <= j and
\* j + 1 < len) and lies at distance 1 or at a distance held by the set of q.
UsableClean(list, pset, j, q) ==
    /\ j >= 1
    /\ j + 1 < Len(list)
    /\ LET k == Abs(AnchorAt(list, j) - q)
       IN  k = 1 \/ k \in pset

\* The radii at which a usable neighbour of the anchor of index idx is clean.
UsableRadii(list, pset, idx, q, maxr) ==
    {r \in 1..maxr : UsableClean(list, pset, idx - r, q)
                     \/ UsableClean(list, pset, idx + r, q)}

\* Some radius up to r has a side whose index leaves the list.
PrevSkippedUpTo(idx, r) == idx - r < 1

NextSkippedUpTo(list, idx, r) == idx + r + 1 >= Len(list)

\* C13: in the correction search of find_correction_radius a neighbour whose
\* index would underflow the sequence (i - r < 1) or run past its end
\* (i + r + 1 >= len) is skipped on that side only: the other side is still
\* examined at the same radius and the search goes on to the next radius.
\* The search therefore ends at the smallest radius at which a neighbour
\* inside the list is clean, whatever sides were skipped before, and never
\* indexes outside the list.
C13_SkippedSideOnly ==
    pc = "returned" /\ outcome \in {"Corrected", "Uncorrected"} =>
        LET q == closest_primes_q[1]
            radii == UsableRadii(prime_list, prime_set, i, q, max_radius)
        IN  /\ ~corr.error
            /\ radii = {} => outcome = "Uncorrected"
            /\ radii # {} =>
                  /\ outcome = "Corrected"
                  /\ corr.radius = Min(radii)
                  /\ corr.by = "prev" <=>
                        UsableClean(prime_list, prime_set, i - corr.radius, q)

\* The previous side underflowed at radius 1 and 2, the next side was
\* examined at both radii and corrected at radius 2 or later.
C13_Witness ==
    /\ pc = "returned"
    /\ outcome = "Corrected"
    /\ corr.by = "next"
    /\ corr.radius >= 2
    /\ PrevSkippedUpTo(i, 1)

\* The report the second run prints: the deterministic numbers are those of
\* the first run, the randomized tallies are its own.
RerunReport == ReportOf(script, [acc EXCEPT !.control = rerun], i, max_radius)

\* C14: scanning the same fixed prime sequence with the same configuration
\* twice yields identical aggregate statistics, those of the randomized
\* control groups included.
C14_SameStatisticsTwice ==
    pc = "done" => report = RerunReport

\* C15: in correction-decay-analysis.py and r_max-final-test.py the first
\* Uncorrected event is recorded and the scan stops: no anchor of a larger
\* index is analysed afterwards and the failure list holds at most one entry.
\* In prime-anchor-system.py the scan goes on after an Uncorrected event: the
\* event is tallied and the scan only ends at the end of its range or at an
\* anchor above the sieve limit.
C15_Step ==
    /\ script \in {"DA", "RM"} /\ pc = "correct" /\ outcome' = "Uncorrected" =>
          /\ Len(acc'.correction_failures) = 1
          /\ pc' = "report"
    /\ script \in {"DA", "RM"} /\ Len(acc.correction_failures) >= 1 =>
          /\ i' = i
          /\ acc' = acc
          /\ pc' \in {"report", "done"}
    /\ script = "PAS" /\ pc = "correct" /\ outcome' = "Uncorrected" =>
          /\ Len(acc'.correction_failures) = Len(acc.correction_failures) + 1
          /\ pc' = "scan"
    /\ script = "PAS" /\ pc = "scan" /\ pc' = "report" =>
          \/ i' = num_pairs + max_radius
          \/ anchor_sum' > sieve_limit

C15_HaltOrTally == [][C15_Step]_vars

\* A halting script has finished with its one failure before the last index
\* of its range: the anchors after it were not analysed.
C15_Witness ==
    /\ script \in {"DA", "RM"}
    /\ pc = "done"
    /\ Len(acc.correction_failures) = 1
    /\ i < num_pairs

\* The outcomes that end the analysis of an anchor.
TerminalOutcomes == {"Clean", "Corrected", "Uncorrected", "SearchExhausted"}

\* The changes of state the analysis of one anchor may make; the step to the
\* next anchor starts over at Init.
AnchorTransitions ==
    {<<"Init", "DistanceSearch">>, <<"Init", "SearchExhausted">>,
     <<"DistanceSearch", "Clean">>, <<"DistanceSearch", "Composite">>,
     <<"Composite", "Corrected">>, <<"Composite", "Uncorrected">>}
    \cup {<<t, "Init">> : t \in TerminalOutcomes}

\* The largest radius the correction search of the script looks at:
\* law-III-null-hypothesis.py has the radii 1 and 2 written out.
SearchedRadius == IF script = "L3" THEN 2 ELSE max_radius

\* C16: the analysis of one anchor goes from Init to DistanceSearch, then to
\* Clean or Composite, and only from Composite into the correction search;
\* it ends in exactly one of Clean, Corrected(radius) with 1 <= radius <=
\* maxRadius, Uncorrected and SearchExhausted, and a Clean or SearchExhausted
\* anchor never enters the correction search.
C16_Step ==
    /\ script \in CorrectingScripts =>
          /\ outcome' # outcome => <<outcome, outcome'>> \in AnchorTransitions
          /\ pc' = "correct" => outcome' = "Composite"
          /\ pc = "correct" => outcome = "Composite"
          /\ pc \in {"distance", "classify", "correct"}
             /\ pc' \in {"scan", "report"} => outcome' \in TerminalOutcomes
          /\ outcome' \in {"Clean", "SearchExhausted"} => corr' = NoCorrection
    /\ script \in CorrectingScripts \/ pc = "density" =>
          /\ outcome' = "Corrected" =>
                corr'.corrected /\ corr'.radius >= 1 /\ corr'.radius <= SearchedRadius
          /\ outcome' = "Uncorrected" => ~corr'.corrected /\ corr'.radius = 0
    /\ pc = "density" /\ i' # i =>
          /\ outcome' \in TerminalOutcomes
          /\ outcome' \in {"Clean", "SearchExhausted"} =>
                ~corr'.corrected /\ corr'.radius = 0
          /\ outcome' \in {"Corrected", "Uncorrected"} =>
                is_k_composite(min_distance_k', prime_set)

C16_AnchorStateMachine == [][C16_Step]_vars

\* An anchor went through the correction search and was corrected at the
\* largest radius, after another anchor of the run ended SearchExhausted or
\* Clean.
C16_Witness ==
    /\ script \in CorrectingScripts
    /\ outcome = "Corrected"
    /\ max_radius >= 2
    /\ corr.radius = max_radius

\* The points of a run at which the membership set has been built.
SetBuilt(at) == at \notin {"start", "aborted", "FileNotFoundError"}

\* C17: the membership set holds exactly the values of the prime sequence at
\* every point of a run; it is built from the final sequence, after the
\* truncation of the loaders that truncate, and neither the sequence nor the
\* set is modified by the scan or the report.
C17_Step ==
    /\ SetBuilt(pc') => prime_set' = Range(prime_list')
    /\ pc # "start" => prime_list' = prime_list /\ prime_set' = prime_set
    /\ pc = "start" /\ script \in {"GP", "HT"} /\ file_exists =>
          prime_list' = Prefix(FileContent(file_len), num_pairs + max_radius + 2)

C17_SetMatchesSequence == [][C17_Step]_vars

\* A run over a truncated file came to its end: the first prime the
\* truncation dropped is not in the set.
C17_Witness ==
    /\ script \in {"GP", "HT"}
    /\ pc = "done"
    /\ file_len > Len(prime_list)
    /\ At(FileContent(file_len), Len(prime_list)) \notin prime_set
    /\ prime_set = Range(prime_list)

\* The sequence is strictly increasing.
StrictlyIncreasing(list) ==
    \A j \in 1..(Len(list) - 1) : list[j] < list[j + 1]

\* C18: for every limit >= 2 a sieve returns exactly the primes up to the
\* limit, in strictly increasing order: every value returned is prime by
\* trial division and no prime up to the limit is left out; the variant
\* whose outer loop stops at the square root of the limit and the variant
\* whose outer loop runs to the limit return the same sequence.
C18_SievesReturnThePrimes ==
    pc = "returned" =>
        /\ StrictlyIncreasing(prime_list)
        /\ \A j \in 1..Len(prime_list) : IsPrime(prime_list[j])
        /\ \A n \in 2..sieve_limit : IsPrime(n) => n \in Range(prime_list)
        /\ \A j \in 1..Len(prime_list) : prime_list[j] <= sieve_limit
        /\ prime_list = sieve_for_primes(sieve_limit).prime_list
        /\ prime_list = sieve_up_to_r(sieve_limit)

\* The sieve that stops at the square root returned for a limit that is the
\* square of a prime: the outer loop had to reach the root itself.
C18_Witness ==
    /\ pc = "returned"
    /\ script = "PAS"
    /\ sieve_limit = 49
    /\ Len(prime_list) = 15
    /\ prime_list[15] = 47

\* C19: the anchors 8 (index 1) and 12 (index 2) are both found at
\* k_min = 1 and classified Clean, so the S_2 set of s_2-anomaly-test.py
\* never receives a composite k and the index 1 never counts as a failure.
C19_SmallAnchorsClean ==
    script \in {"S2", "M6"} =>
        /\ i \in {1, 2} /\ outcome \in {"Clean", "Composite"} =>
              /\ anchor_sum = (IF i = 1 THEN 8 ELSE 12)
              /\ min_distance_k = 1
              /\ outcome = "Clean"
        /\ script = "S2" =>
              acc.s2_composites = {} /\ acc.total_s2_failures = 0

\* The scanned indices of the decay analysis whose anchor is Composite.
DA_CompositeIndices ==
    {j \in StartIndexOf("DA", max_radius)..i :
        is_k_composite(DA_Search(AnchorAt(prime_list, j), prime_set, 1).k,
                       prime_set)}

\* The indices counted into the record stored at the interval end e: the
\* counters are stored and reset before the anchor of index e is analysed.
DA_WindowOf(e) == (e - DecayInterval)..(e - 1)

\* C20: in the decay analysis the stored windows are contiguous, disjoint
\* and cover every scanned index, so each Composite anchor of a completed
\* scan is counted in exactly one stored interval record, and the sum of the
\* interval exception counts (the OVERALL row) equals the number of Composite
\* anchors, those at the last scanned index included.
C20_IntervalsCoverScan ==
    pc = "done" /\ script = "DA" /\ acc.correction_failures = <<>> =>
        /\ \A j \in DA_CompositeIndices :
              Cardinality({e \in DOMAIN report.decay_stats :
                              j \in DA_WindowOf(e)}) = 1
        /\ \A e \in DOMAIN report.decay_stats :
              report.decay_stats[e].exceptions
                 = Cardinality(DA_CompositeIndices \cap DA_WindowOf(e))
        /\ report.cumulative_exceptions_total = Cardinality(DA_CompositeIndices)

\* The radii whose previous neighbour the correction search of the current
\* anchor read: up to the radius of the correction, or every radius of the
\* search when a candidate stayed uncorrected (law-III-null-hypothesis.py
\* reads radius 1, and radius 2 when radius 1 did not correct).
RadiiRead ==
    CASE script = "L3" -> IF corr.corrected /\ corr.radius = 1 THEN {1} ELSE {1, 2}
      [] script = "PAS" /\ Len(closest_primes_q) > 1 -> 1..max_radius
      [] OTHER -> IF corr.corrected THEN 1..corr.radius ELSE 1..max_radius

\* The indices i - r the correction search of the current anchor read;
\* find_correction_radius reads none below 1 (if idx_prev >= 1).
PrevIndicesRead ==
    IF script \in CorrectingScripts
    THEN {i - r : r \in RadiiRead}
    ELSE {j \in {i - r : r \in RadiiRead} : j >= 1}

\* C21: the pair of index 0 (2 + 3 = 5) is never analysed as an anchor and
\* never used as a neighbouring anchor in a correction search: every
\* scanned index and every neighbour index i - r that is read is >= 1.
C21_Step ==
    /\ pc' \in {"distance", "classify", "correct"} => i' >= 1 /\ anchor_sum' # 5
    /\ pc = "density" /\ i' # i => i' >= 1 /\ anchor_sum' # 5
    /\ (pc = "correct" \/ (pc = "density" /\ i' # i))
       /\ outcome' \in {"Corrected", "Uncorrected"} =>
          \A j \in PrevIndicesRead' : j >= 1

C21_IndexZeroExcluded == [][C21_Step]_vars

\* The search with the radii 1 and 2 written out ran in a scan that starts
\* at index 1 and read the previous neighbour of its anchor.
C21_Witness ==
    /\ script = "L3"
    /\ max_radius = 0
    /\ outcome \in {"Corrected", "Uncorrected"}
    /\ PrevIndicesRead # {}
    /\ \A j \in PrevIndicesRead : j >= 1

\* C22: for every anchor of index i >= 1, the sum of two odd primes, the
\* distance k_min is odd, so the Law II branch for an even composite k is
\* never taken: law_ii_violations stays empty in every run and every
\* Composite anchor reaches the correction search.
C22_Step ==
    /\ min_distance_k' # 0 => min_distance_k' % 2 = 1
    /\ script = "PAS" =>
          /\ acc'.law_ii_violations = <<>>
          /\ outcome' # "LawIIViolation"
          /\ pc = "classify" /\ is_k_composite(min_distance_k, prime_set) =>
                pc' = "correct" /\ outcome' = "Composite"

C22_KMinOdd == [][C22_Step]_vars

\* prime-anchor-system.py passed the Law II check with an odd composite k
\* and went on to the correction search.
C22_Witness ==
    /\ script = "PAS"
    /\ pc = "correct"
    /\ is_k_composite(min_distance_k, prime_set)
    /\ min_distance_k % 2 = 1
    /\ acc.law_ii_violations = <<>>

\* The counts stored in the three bins of the modulo-6 classifier.
BinTotal(bins) == SumValues(bins[0]) + SumValues(bins[2]) + SumValues(bins[4])

\* C23: in the modulo-6 classifier every scanned anchor (index >= 2) has
\* anchor_sum % 6 in {0, 2, 4}, so failure_bins[anchor_mod_6] never misses
\* its key, and after any sequence of scanned anchors total_failures equals
\* the sum of the counts stored in the three bins.
C23_Mod6Bins ==
    script = "M6" =>
        /\ pc # "KeyError"
        /\ pc \in {"distance", "classify"} =>
              i >= 2 /\ anchor_sum % 6 \in {0, 2, 4}
        /\ DOMAIN acc.failure_bins = {0, 2, 4}
        /\ acc.total_failures = BinTotal(acc.failure_bins)

\* The classifier finished a scan in which it binned a composite distance.
C23_Witness ==
    /\ script = "M6"
    /\ pc = "done"
    /\ acc.total_failures >= 1
    /\ BinTotal(acc.failure_bins) >= 1

\* The distance of the current anchor of the decay analysis lies between 1
\* and p[i].
DA_DistanceBounded ==
    script = "DA" /\ pc \in {"classify", "correct"} =>
        /\ min_distance_k >= 1
        /\ min_distance_k <= At(prime_list, i)

\* C24: the distance search without a safety limit of the decay analysis
\* terminates for every scanned index: p[i+1] is in the membership set and
\* S - p[i] = p[i+1], so the loop ends with 1 <= k_min <= p[i] whatever the
\* largest prime of the list is, and the whole scan terminates.
C24_UnboundedSearchEnds ==
    /\ []DA_DistanceBounded
    /\ (script = "DA") ~> (pc \in {"done", "aborted"})

\* The search ended at the last distance it can reach, k_min = p[i]: the
\* prime found is p[i+1], no prime of the set lies nearer to the anchor.
C24_Witness ==
    /\ script = "DA"
    /\ pc = "classify"
    /\ min_distance_k = At(prime_list, i)
    /\ closest_primes_q = <<At(prime_list, i + 1)>>

\* The scripts whose distance search has a safety limit.
LimitedScripts == {"L3", "RM", "M6", "S2", "GP", "HT"}

\* C25: no distance search reports a k_min above its safety limit;
\* find_correction_radius and the main loop of run_heuristic_analysis, which
\* share PRIME_SEARCH_SAFETY_LIMIT, accept the same distances
\* 1..PRIME_SEARCH_SAFETY_LIMIT and report exhaustion for the same anchors.
C25_WithinSafetyLimit ==
    /\ script \in LimitedScripts => min_distance_k <= SafetyLimit
    /\ script = "GP" /\ pc \in {"density", "done"} /\ start_index >= 1
       /\ i >= start_index =>
          min_distance_k = GP_Search(anchor_sum, prime_set, SafetyLimit, 1).k

\* The indices of prime-anchor-system.py whose iteration ran the distance
\* search: the loop is left at the first anchor above the sieve limit.
PAS_SearchedIndices ==
    {j \in StartIndexOf("PAS", max_radius)..i :
        AnchorAt(prime_list, j) <= sieve_limit}

\* C26: the number of pairs a scan reports as tested equals the number of
\* anchors it classified: total_pairs_tested of generate-prime.py and
\* total_pairs_tested = (i + 1) - start_index of prime-anchor-system.py equal
\* the number of iterations that ran the distance search, also when the loop
\* is left through its break.
C26_TestedEqualsClassified ==
    /\ script = "GP" /\ pc = "density_start" =>
          report.p_observed.tested = Cardinality(ScannedIndices)
    /\ script = "PAS" /\ pc = "done" =>
          report.total_pairs_tested = Cardinality(PAS_SearchedIndices)

\* The primes of the set at the distance k_min of the current anchor, the
\* lower one first.
BothCandidates ==
    (IF (anchor_sum - min_distance_k) \in prime_set
     THEN <<anchor_sum - min_distance_k>> ELSE <<>>)
    \o (IF (anchor_sum + min_distance_k) \in prime_set
        THEN <<anchor_sum + min_distance_k>> ELSE <<>>)

\* Two results of a correction search agree on the outcome and the radius.
SameVerdict(a, b) == a.corrected = b.corrected /\ a.radius = b.radius

\* C27: for the same prime sequence, anchor index and maxRadius the
\* single-candidate correction search (lower prime preferred) and the
\* multi-candidate search of prime-anchor-system.py give the same
\* Corrected/Uncorrected outcome and the same radius; they can differ only
\* for an anchor with two equidistant candidate primes whose lower candidate
\* is not correctable within maxRadius.
C27_SingleAndMultiAgree ==
    script \in {"PAS", "DA", "RM"} /\ outcome \in {"Corrected", "Uncorrected"} =>
        LET multi == PAS_CandidateLoop(prime_list, prime_set, i, BothCandidates,
                                       1, max_radius)
            single == DA_RadiusLoop(prime_list, prime_set, i, BothCandidates[1],
                                    1, max_radius)
            single_rm == RM_RadiusLoop(prime_list, prime_set, i, BothCandidates[1],
                                       1, max_radius)
        IN  /\ SameVerdict(corr, IF script = "PAS" THEN multi
                                 ELSE IF script = "DA" THEN single ELSE single_rm)
            /\ SameVerdict(single, single_rm)
            /\ \/ SameVerdict(multi, single)
               \/ Len(BothCandidates) = 2 /\ ~single.corrected

\* The multi-candidate search had two equidistant candidates and corrected
\* the anchor with the lower one.
C27_Witness ==
    /\ script = "PAS"
    /\ outcome = "Corrected"
    /\ Len(closest_primes_q) = 2
    /\ corr.q = closest_primes_q[1]
    /\ corr.radius >= 1

\* The radii at which the anchors the density check has gone through were
\* corrected.
DensityCorrectedRadii ==
    {find_correction_radius(prime_list, prime_set, j, max_radius).r :
        j \in {x \in start_index..i :
                  find_correction_radius(prime_list, prime_set, x,
                                         max_radius).status = "CORRECTED"}}

\* C28: in the density check max_r_found is the largest radius at which a
\* checked anchor was Corrected: anchors that are Clean, that exhaust the
\* distance search or that end in FAILURE never raise max_r_found.
C28_MaxRFoundIsCorrected ==
    /\ pc = "returned" =>
          acc.max_r_found = (IF outcome = "Corrected" THEN corr.radius ELSE 0)
    /\ script = "GP" /\ pc \in {"density", "done"} /\ start_index >= 1
       /\ i >= start_index =>
        /\ \A r \in DensityCorrectedRadii : r <= acc.max_r_found
        /\ acc.max_r_found \in DensityCorrectedRadii \cup {0}

\* C29: in the decay analysis every stored interval record satisfies
\* sum(corrections.values()) == exceptions, and in the Law III
\* null-hypothesis test each Composite anchor is counted in at most one of
\* the counters of r = 1 and r = 2, so true_system_corrections_r1 +
\* true_system_corrections_r2 <= total_failures_found after every processed
\* anchor.
C29_Step ==
    /\ script = "DA" =>
          \A e \in DOMAIN acc'.decay_stats :
              SumValues(acc'.decay_stats[e].corrections)
                 = acc'.decay_stats[e].exceptions
    /\ script = "L3" =>
          /\ acc'.corrections_r1 + acc'.corrections_r2 <= acc'.total_failures
          /\ acc'.corrections_r1 >= acc.corrections_r1
          /\ acc'.corrections_r2 >= acc.corrections_r2
          /\ (acc'.corrections_r1 + acc'.corrections_r2)
                - (acc.corrections_r1 + acc.corrections_r2) <= 1
          /\ acc'.corrections_r1 + acc'.corrections_r2
                # acc.corrections_r1 + acc.corrections_r2 => pc = "correct"

C29_CountersConsistent == [][C29_Step]_vars

\* The decay analysis ended with a stored interval record that holds
\* exceptions.
C29_Witness ==
    /\ script = "DA"
    /\ pc = "done"
    /\ \E e \in DOMAIN acc.decay_stats :
          /\ acc.decay_stats[e].exceptions >= 1
          /\ SumValues(acc.decay_stats[e].corrections) >= 1


\* C30: every scan that runs to its end produces its final report without an
\* arithmetic error, also when it met no Composite anchor or classified no
\* anchor at all: the divisors of the reports (total_failures_found and
\* control_system_attempts, total_possible_k and total_pairs_tested,
\* NUM_ANCHOR_POINTS_TO_TEST) are not zero when the division is executed.
C30_ReportWithoutArithmeticError ==
    /\ pc # "ZeroDivisionError"
    /\ pc = "report" => ReportDivides

=============================================================================
